---- MODULE Spec2Model ----
(***************************************************************************)
(* Model of BackupWB2S3 (wb_backup2s3_core.py): the incremental backup of  *)
(* Tableau workbooks to S3.  One run of run_backup visits the sites one at *)
(* a time; for each site backup_site loads the persisted upload_state,     *)
(* reconciles removed paths, queues changed workbooks, transfers them      *)
(* (sequentially or on a ThreadPoolExecutor) and persists upload_state.    *)
(*                                                                         *)
(* Strings are sequences of characters (one-character TLA+ strings; a site *)
(* name or an id counts as one character), so that path joining, the       *)
(* extension slicing and prefix tests are computed as the code computes    *)
(* them.                                                                   *)
(***************************************************************************)
EXTENDS Integers, Sequences, FiniteSets, TLC

VARIABLES
    ts_wbs,             \* Tableau Server: site -> list of workbooks (TSC.Pager(self.ts.workbooks))
    store_state,        \* S3: site -> body of <site>/upload_state.json, or NoObject
    s3_objects,         \* S3: object key -> [id, last_modified] of the uploaded workbook files
    staging,            \* files present in work_dir
    now,                \* today's day number
    run,                \* number of the current run_backup invocation
    threads,            \* run_backup(threads=...)
    pc,                 \* position of the main thread
    wb_sites,           \* run_backup: the sites to visit (all sites, or those of site_names)
    site_idx,           \* index of the site run_backup is at
    current_site_name,  \* self.current_site_name
    project_id_path,    \* self.project_id_path
    upload_state,       \* self.upload_state
    tasks,              \* the futures of this pass: one per entry of queue_to_backup
    result_queue,       \* self.result_queue
    exeptions_queue,    \* self.exeptions_queue
    pass,               \* bookkeeping of the current pass (observation only, never read by the program)
    fill                \* _fill_project_id_path run on its own: the table and the locals of its loops

vars == <<ts_wbs, store_state, s3_objects, staging, now, run, threads, pc, wb_sites, site_idx,
          current_site_name, project_id_path, upload_state, tasks, result_queue,
          exeptions_queue, pass, fill>>

----------------------------------------------------------------------------
(* Bounds of the model *)

\* number of run_backup invocations that are explored
MaxRuns == 2

\* hops of one walk up the project tree that are recorded in path; a longer walk
\* goes on without the model extending path any further
MaxHops == 4

\* max_workers handed to the ThreadPoolExecutor
MaxWorkers == 2

\* days that pass between two runs
RunGapDays == 30

\* resolution of the clock: instants per day
TicksPerDay == 2

\* last_modified_update_interval of run_backup
UpdateInterval == 30

None == "None"
\* get_object answers NoSuchKey for it
NoObject == [kind |-> "absent", members |-> {}]

----------------------------------------------------------------------------
(* The source system: sites, projects, workbooks *)

\* _ts_get_all_sites: the sites of the server, in listing order
AllSites == <<"S1", "S2">>

\* TSC.Pager(self.ts.projects) of a site: project id -> [name, parent_id]
\* S1 holds A, A/B (nested) and a top-level project whose name is "A/B"
AllProjects(site) ==
    IF site = "S1"
    THEN [p \in {"P1", "P2", "P3"} |->
            CASE p = "P1" -> [name |-> <<"A">>, parent_id |-> None]
              [] p = "P2" -> [name |-> <<"B">>, parent_id |-> "P1"]
              [] p = "P3" -> [name |-> <<"A", "/", "B">>, parent_id |-> None]]
    ELSE [p \in {"P4"} |-> [name |-> <<"A">>, parent_id |-> None]]

\* datetimes with a timezone offset: an instant t (UTC) and the offset
DT(t, off) == [t |-> t, off |-> off]

\* a WorkbookItem
WB(id, name, project_id, created_at, updated_at) ==
    [id |-> id, name |-> name, project_id |-> project_id,
     created_at |-> created_at, updated_at |-> updated_at]

w1 == WB("1", <<"R">>, "P2", DT(1, 0), DT(1, 0))
w2 == WB("2", <<"R">>, "P3", DT(1, 0), DT(1, 0))
w3 == WB("3", <<"Q">>, "P1", DT(1, 0), DT(1, 0))
w3upd == WB("3", <<"Q">>, "P1", DT(1, 0), DT(2, 0))
w3cre == WB("3", <<"Q">>, "P1", DT(1, 1), DT(1, 0))
w5 == WB("5", <<"Q">>, "P1", DT(1, 0), DT(1, 0))
w4 == WB("4", <<"R">>, "P4", DT(1, 0), DT(1, 0))

\* the workbook listings a site can return
Inventories(site) ==
    IF site = "S1"
    THEN {<<w1, w2>>, <<w1, w3>>, <<w1, w3upd>>, <<w1, w3cre>>, <<w1, w5>>, <<w1>>}
    ELSE {<<w4>>, <<>>}

----------------------------------------------------------------------------
(* Pure functions of the program *)

\* datetime.datetime.now() at the run of day number "day", as an instant
Instant(day) == day * TicksPerDay

\* (datetime.now() - LastModified).days: the whole days of the difference
AgeDays(at, last_modified) == (at - last_modified) \div TicksPerDay

\* datetime.strftime('%Y-%m-%d %H:%M:%S%z'): local wall clock, then the offset
strftime(dt) == <<dt.t + dt.off, dt.off>>

RECURSIVE JoinSlash(_)
\* '/'.join(list of strings)
JoinSlash(names) ==
    IF names = <<>> THEN <<>>
    ELSE IF Len(names) = 1 THEN names[1]
    ELSE names[1] \o <<"/">> \o JoinSlash(Tail(names))

RECURSIVE AncestorNames(_, _, _)
\* the while loop of _fill_project_id_path as a function: names from the parent up
\* to the root, not ok (KeyError) when a parent_id is not in the table; hops makes
\* the recursion well-founded and is not reached on a table without a cycle
AncestorNames(all_projects, parent_id, hops) ==
    IF parent_id = None THEN [ok |-> TRUE, path |-> <<>>]
    ELSE IF parent_id \notin DOMAIN all_projects \/ hops = 0
         THEN [ok |-> FALSE, path |-> <<>>]
         ELSE LET rest == AncestorNames(all_projects, all_projects[parent_id].parent_id, hops - 1)
              IN  [ok |-> rest.ok, path |-> <<all_projects[parent_id].name>> \o rest.path]

Reverse(s) == [i \in 1..Len(s) |-> s[Len(s) + 1 - i]]

\* _fill_project_id_path: project id -> 'anc1/anc2/.../name/'
FillProjectIdPath(all_projects) ==
    [p \in DOMAIN all_projects |->
        JoinSlash(Reverse(AncestorNames(all_projects, all_projects[p].parent_id,
                                        Cardinality(DOMAIN all_projects)).path)
                  \o <<all_projects[p].name>>) \o <<"/">>]

\* _get_wb_path
GetWbPath(site_name, pip, wb) == <<site_name>> \o <<"/">> \o pip[wb.project_id] \o wb.name

\* os.path.join(work_dir, wb.id) plus the extension the download adds
WorkDir == <<"/", "w", "/">>
FilePath(wb, tail) == WorkDir \o <<wb.id>> \o tail

\* the file name endings a download can produce: .twb, or no extension
DownloadTails == {<<".", "t", "w", "b">>, <<"d">>}

\* file_path[-7:]
Last7(s) == IF Len(s) <= 7 THEN s ELSE SubSeq(s, Len(s) - 6, Len(s))

RECURSIVE SplitDot(_, _)
\* str.split('.'): cur is the segment being collected
SplitDot(s, cur) ==
    IF s = <<>> THEN <<cur>>
    ELSE IF Head(s) = "." THEN <<cur>> \o SplitDot(Tail(s), <<>>)
    ELSE SplitDot(Tail(s), Append(cur, Head(s)))

\* file_path[-7:].split('.')[1] raises IndexError when there is no dot
ExtRaises(file_path) == Len(SplitDot(Last7(file_path), <<>>)) < 2
ObjKey(wb_path, file_path) == wb_path \o <<".">> \o SplitDot(Last7(file_path), <<>>)[2]

\* the record written to upload_state on upload success
StateRecord(wb, obj_key, today) ==
    [id |-> wb.id, name |-> wb.name,
     created_at |-> strftime(wb.created_at), updated_at |-> strftime(wb.updated_at),
     upload_date |-> today, object_key |-> obj_key]

\* json.dumps of upload_state: the object as its set of key/value members
Dumps(state) == [kind |-> "json", members |-> {<<k, state[k]>> : k \in DOMAIN state}]

\* json.loads of a body produced by Dumps
Loads(body) ==
    LET keys == {m[1] : m \in body.members}
    IN  [k \in keys |-> (CHOOSE m \in body.members : m[1] = k)[2]]

EmptyState == [k \in {} |-> None]

\* the Workbook dataclass put on the queues
Workbook(wb) == [name |-> wb.name, id |-> wb.id]

----------------------------------------------------------------------------
(* The planner of backup_site *)

\* all_wbs_paths
AllWbsPaths(site_name, pip, all_wbs) ==
    {GetWbPath(site_name, pip, all_wbs[i]) : i \in 1..Len(all_wbs)}

\* a reconciliation that finds nothing removed
RemovedKeysNone(state, all_wbs_paths) == {}

\* the keys of upload_state that are not the path of a listed workbook
RemovedKeys(state, all_wbs_paths) == {k \in DOMAIN state : k \notin all_wbs_paths}

\* the test without the created_at comparison
IsUnchangedNoCreatedAt(state, wb_path, wb) ==
    /\ wb_path \in DOMAIN state
    /\ state[wb_path].id = wb.id
    /\ state[wb_path].updated_at = strftime(wb.updated_at)

\* the test of backup_site that skips a workbook
IsUnchanged(state, wb_path, wb) ==
    /\ wb_path \in DOMAIN state
    /\ state[wb_path].id = wb.id
    /\ state[wb_path].updated_at = strftime(wb.updated_at)
    /\ state[wb_path].created_at = strftime(wb.created_at)

\* queue_to_backup, in listing order
QueueToBackup(state, site_name, pip, all_wbs) ==
    SelectSeq(all_wbs, LAMBDA wb : ~IsUnchanged(state, GetWbPath(site_name, pip, wb), wb))

\* the loop without the pop
PopKeysForgotten(state, keys) == state

\* dict.pop of a set of keys
PopKeys(state, keys) == [k \in DOMAIN state \ keys |-> state[k]]

----------------------------------------------------------------------------
(* Positions *)

TaskFinished(t) == t.pc \in {"done", "raised"}

\* a pool that is left without waiting for its futures
PoolDoneNoWait == TRUE

\* leaving the "with ThreadPoolExecutor" block waits for every future;
\* the sequential loop has run every call
PoolDone == \A i \in 1..Len(tasks) : TaskFinished(tasks[i])

\* tasks a worker thread is executing
Running == {i \in 1..Len(tasks) : tasks[i].pc \notin {"queued", "done", "raised"}}

\* a task leaves the work queue in submission order when a worker is free;
\* without threads the calls are made one after the other
CanStart(i) ==
    /\ tasks[i].pc = "queued"
    /\ \A j \in 1..(i - 1) : tasks[j].pc # "queued"
    /\ IF threads THEN Cardinality(Running) < MaxWorkers
                  ELSE \A j \in 1..(i - 1) : tasks[j].pc = "done"

\* where the main thread is after an exception left a task: a future keeps it,
\* a direct call lets it propagate out of backup_site and run_backup
AfterTaskRaised == IF threads THEN pc ELSE "aborted"

PassAfterTaskRaised == IF threads THEN pass ELSE [pass EXCEPT !.abort = "task"]

\* function f with key k set to v
Put(f, k, v) == [x \in DOMAIN f \cup {k} |-> IF x = k THEN v ELSE f[x]]

SiteNames == {AllSites[i] : i \in 1..Len(AllSites)}

\* what the server can list: one inventory per site
Listings == {[s \in SiteNames |-> IF s = "S1" THEN a ELSE b] :
                a \in Inventories("S1"), b \in Inventories("S2")}

\* the sites run_backup visits
VisitedSites == {wb_sites[i] : i \in 1..Len(wb_sites)}

NewPass(site) ==
    [site |-> site, loaded |-> EmptyState, removed |-> {}, touched |-> {},
     queued |-> <<>>, persisted |-> 0, store0 |-> store_state, objects0 |-> s3_objects,
     abort |-> None, load |-> None, mark_r |-> Len(result_queue),
     mark_e |-> Len(exeptions_queue), requested |-> site, found |-> TRUE,
     refreshed |-> pass.refreshed, unrecorded |-> pass.unrecorded,
     was_clean |-> pass.clean[site],
     clean |-> [pass.clean EXCEPT ![site] = FALSE]]

----------------------------------------------------------------------------
(* Initial states: the first run of the program against an empty bucket *)

FirstPass ==
    [site |-> None, loaded |-> EmptyState, removed |-> {}, touched |-> {},
     queued |-> <<>>, persisted |-> 0, store0 |-> store_state,
     objects0 |-> s3_objects, abort |-> None, load |-> None, mark_r |-> 0, mark_e |-> 0,
     requested |-> None, found |-> TRUE, refreshed |-> [s \in SiteNames |-> 0],
     unrecorded |-> [site |-> None, wbs |-> {}], was_clean |-> FALSE,
     clean |-> [s \in SiteNames |-> FALSE]]

\* _fill_project_id_path is not being stepped
FillIdle == [pc |-> "idle"]

InitMemory ==
    /\ staging = {}
    /\ run = 1
    /\ pc = "next"
    /\ site_idx = 1
    /\ current_site_name = None
    /\ project_id_path = EmptyState
    /\ upload_state = EmptyState
    /\ tasks = <<>>
    /\ result_queue = <<>>
    /\ exeptions_queue = <<>>
    /\ pass = FirstPass

RECURSIVE StateOfPass(_, _, _, _)
\* upload_state at the end of a pass over all_wbs from state, every transfer succeeding
StateOfPass(state, site, all_wbs, day) ==
    IF all_wbs = <<>> THEN state
    ELSE LET wb == Head(all_wbs)
             wb_path == GetWbPath(site, FillProjectIdPath(AllProjects(site)), wb)
             obj_key == ObjKey(wb_path, FilePath(wb, <<".", "t", "w", "b">>))
         IN  StateOfPass(Put(state, wb_path, StateRecord(wb, obj_key, day)), site,
                         Tail(all_wbs), day)

\* the listings of an earlier run that left the bucket as the run under study finds it
EarlierListings ==
    {[s \in SiteNames |-> IF s = "S1" THEN <<w1, w3>> ELSE <<w4>>]}

\* the bucket after an earlier run over listing, RunGapDays ago, every transfer succeeding
BucketAfter(listing) ==
    LET day == 0 - RunGapDays
        st == [s \in SiteNames |-> StateOfPass(EmptyState, s, listing[s], day)]
        keys == UNION {{st[s][p].object_key : p \in DOMAIN st[s]} : s \in SiteNames}
    IN  [state |-> [s \in SiteNames |-> Dumps(st[s])],
         objects |-> [k \in keys |->
                        [id |-> (CHOOSE r \in UNION {{st[s][p] : p \in DOMAIN st[s]} : s \in SiteNames} :
                                    r.object_key = k).id,
                         last_modified |-> Instant(day)]]]

EmptyBucket == [state |-> [s \in SiteNames |-> NoObject], objects |-> EmptyState]

\* the object of a workbook that is no longer listed and no longer in the state
StrayKey == <<"S1", "/", "A", "/", "Z", ".", "t", "w", "b">>

\* a bucket that also holds the stray object, last modified "ticks" instants ago
WithStray(bucket, ticks) ==
    [bucket EXCEPT !.objects = Put(bucket.objects, StrayKey,
                                   [id |-> "9", last_modified |-> 0 - ticks])]

\* the buckets the run under study can find: empty, left by an earlier run, and
\* that one with a stray object aged exactly the refresh interval or one instant less
Buckets ==
    {EmptyBucket}
    \cup {BucketAfter(l) : l \in EarlierListings}
    \cup {WithStray(BucketAfter(l), t) :
            l \in EarlierListings,
            t \in {UpdateInterval * TicksPerDay, UpdateInterval * TicksPerDay - 1}}

\* one run over all sites, against an empty bucket or the bucket an earlier run
\* left; S1 may list more workbooks than there are workers, or none any more
Init ==
    /\ ts_wbs \in Listings \cup {[s \in SiteNames |-> IF s = "S1" THEN <<w1, w2, w3>> ELSE <<w4>>],
                                [s \in SiteNames |-> IF s = "S1" THEN <<>> ELSE <<w4>>]}
    /\ threads \in BOOLEAN
    /\ wb_sites = AllSites
    /\ now = 0
    /\ \E bucket \in Buckets :
          /\ store_state = bucket.state
          /\ s3_objects = bucket.objects
    /\ InitMemory
    /\ fill = FillIdle

\* runs that follow one another, restricted to one site by site_names,
\* the first against an empty bucket, RunGapDays before day 0
InitRerun ==
    /\ ts_wbs \in {l \in Listings : l["S2"] = <<w4>>}
    /\ threads \in BOOLEAN
    /\ wb_sites = <<"S1">>
    /\ now = 0 - RunGapDays
    /\ store_state = EmptyBucket.state
    /\ s3_objects = EmptyBucket.objects
    /\ InitMemory
    /\ fill = FillIdle

----------------------------------------------------------------------------
(* _ts_switch_site and _s3_download_upload_state *)

\* what get_object and the parse of its body can do
LoadOutcomes(site) ==
    IF store_state[site] = NoObject THEN {"NoSuchKey", "ClientError"}
                                    ELSE {"ok", "ClientError", "ParseError"}

\* every failed load taken for a first run
LoadRaisesNever(outcome) == FALSE

\* a ClientError other than NoSuchKey and a decode or json.loads error are re-raised
LoadRaises(outcome) == outcome \in {"ClientError", "ParseError"}

\* a load that leaves self.upload_state alone when there is no state object
LoadedStateKeepsMemory(outcome, body) == IF outcome = "ok" THEN Loads(body) ELSE upload_state

\* self.upload_state after a load that returned
LoadedState(outcome, body) == IF outcome = "ok" THEN Loads(body) ELSE EmptyState

\* backup_site up to the end of _ts_switch_site
SwitchSite(outcome) ==
    /\ pc = "next"
    /\ site_idx <= Len(wb_sites)
    /\ LET site == wb_sites[site_idx] IN
        /\ outcome \in LoadOutcomes(site)
        /\ current_site_name' = site
        /\ tasks' = <<>>
        /\ IF LoadRaises(outcome)
           THEN /\ pc' = "aborted"
                /\ pass' = [NewPass(site) EXCEPT !.abort = "load", !.load = outcome]
                /\ UNCHANGED <<upload_state, project_id_path>>
           ELSE /\ pc' = "switched"
                /\ upload_state' = LoadedState(outcome, store_state[site])
                /\ project_id_path' = FillProjectIdPath(AllProjects(site))
                /\ pass' = [NewPass(site) EXCEPT !.loaded = upload_state', !.load = outcome]
    /\ UNCHANGED <<fill, ts_wbs, store_state, s3_objects, staging, now, run, threads, wb_sites, site_idx,
                   result_queue, exeptions_queue>>

\* _ts_switch_site when the server no longer lists the site (it was deleted after
\* run_backup listed the sites): the else branch logs a warning and returns, and
\* backup_site goes on with the session, current_site_name, upload_state and
\* project_id_path of the site before. While current_site_name is still None the
\* string concatenation of _get_wb_path or _s3_upload_upload_state raises TypeError.
SwitchSiteNotFound ==
    /\ pc = "next"
    /\ site_idx <= Len(wb_sites)
    /\ tasks' = <<>>
    /\ IF current_site_name = None
       THEN /\ pc' = "aborted"
            /\ pass' = [pass EXCEPT !.requested = wb_sites[site_idx], !.found = FALSE,
                                    !.abort = "TypeError", !.store0 = store_state,
                                    !.objects0 = s3_objects, !.persisted = 0]
       ELSE /\ pc' = "switched"
            /\ pass' = [NewPass(current_site_name) EXCEPT !.requested = wb_sites[site_idx],
                                                          !.found = FALSE,
                                                          !.loaded = upload_state,
                                                          !.was_clean = FALSE]
    /\ UNCHANGED <<fill, ts_wbs, store_state, s3_objects, staging, now, run, threads, wb_sites, site_idx,
                   current_site_name, project_id_path, upload_state, result_queue,
                   exeptions_queue>>

----------------------------------------------------------------------------
(* backup_site: reconciliation of removed paths, queue_to_backup, submission *)

\* _s3_update_last_modified on a set of object keys
TouchAll(objects, keys) ==
    [k \in DOMAIN objects |->
        IF k \in keys THEN [objects[k] EXCEPT !.last_modified = Instant(now)] ELSE objects[k]]

ObjectKeysOf(state, keys) == {state[k].object_key : k \in keys}

NewTask(wb) == [wb |-> wb, pc |-> "queued", file |-> <<>>, key |-> <<>>, out |-> None,
                exc |-> None]

\* every copy_object succeeds
PlanSite ==
    /\ pc = "switched"
    /\ LET all_wbs == ts_wbs[current_site_name]
           paths == AllWbsPaths(current_site_name, project_id_path, all_wbs)
           removed == RemovedKeys(upload_state, paths)
           state1 == PopKeys(upload_state, removed)
           queue == QueueToBackup(state1, current_site_name, project_id_path, all_wbs)
       IN
        /\ ObjectKeysOf(upload_state, removed) \subseteq DOMAIN s3_objects
        /\ s3_objects' = TouchAll(s3_objects, ObjectKeysOf(upload_state, removed))
        /\ upload_state' = state1
        /\ tasks' = [i \in 1..Len(queue) |-> NewTask(queue[i])]
        /\ pass' = [pass EXCEPT !.removed = removed,
                                !.touched = ObjectKeysOf(upload_state, removed),
                                !.queued = queue]
        /\ pc' = "pool"
    /\ UNCHANGED <<fill, ts_wbs, store_state, staging, now, run, threads, wb_sites, site_idx,
                   current_site_name, project_id_path, result_queue, exeptions_queue>>

\* copy_object raises for key k and the loop goes on to the next key: the keys of
\* "before" are touched, every removed key is popped and the pass is planned
PlanSiteTouchSkipped(k, before) ==
    /\ pc = "switched"
    /\ LET all_wbs == ts_wbs[current_site_name]
           paths == AllWbsPaths(current_site_name, project_id_path, all_wbs)
           removed == RemovedKeys(upload_state, paths)
           state1 == PopKeys(upload_state, removed)
           queue == QueueToBackup(state1, current_site_name, project_id_path, all_wbs)
       IN
        /\ k \in removed
        /\ before \subseteq removed \ {k}
        /\ ObjectKeysOf(upload_state, before) \subseteq DOMAIN s3_objects
        /\ s3_objects' = TouchAll(s3_objects, ObjectKeysOf(upload_state, before))
        /\ upload_state' = state1
        /\ tasks' = [i \in 1..Len(queue) |-> NewTask(queue[i])]
        /\ pass' = [pass EXCEPT !.removed = removed,
                                !.touched = ObjectKeysOf(upload_state, before),
                                !.queued = queue,
                                !.abort = "touch"]
        /\ pc' = "pool"
    /\ UNCHANGED <<fill, ts_wbs, store_state, staging, now, run, threads, wb_sites, site_idx,
                   current_site_name, project_id_path, result_queue, exeptions_queue>>

\* copy_object raises for key k after the keys of "before" were touched and popped
PlanSiteTouchFails(k, before) ==
    /\ pc = "switched"
    /\ LET all_wbs == ts_wbs[current_site_name]
           paths == AllWbsPaths(current_site_name, project_id_path, all_wbs)
           removed == RemovedKeys(upload_state, paths)
       IN
        /\ k \in removed
        /\ before \subseteq removed \ {k}
        /\ ObjectKeysOf(upload_state, before) \subseteq DOMAIN s3_objects
        /\ s3_objects' = TouchAll(s3_objects, ObjectKeysOf(upload_state, before))
        /\ upload_state' = PopKeys(upload_state, before)
        /\ pass' = [pass EXCEPT !.removed = before,
                                !.touched = ObjectKeysOf(upload_state, before),
                                !.abort = "touch"]
        /\ pc' = "aborted"
    /\ UNCHANGED <<fill, ts_wbs, store_state, staging, now, run, threads, wb_sites, site_idx,
                   current_site_name, project_id_path, tasks, result_queue, exeptions_queue>>

----------------------------------------------------------------------------
(* _backup_wb2s3: one call per queued workbook, on a worker thread or inline *)

WbPathOf(t) == GetWbPath(current_site_name, project_id_path, t.wb)

\* a worker takes the task from the queue (or the loop makes the call)
TaskStart(i) ==
    /\ pc = "pool"
    /\ i \in 1..Len(tasks)
    /\ CanStart(i)
    /\ tasks' = [tasks EXCEPT ![i].pc = "download"]
    /\ UNCHANGED <<fill, ts_wbs, store_state, s3_objects, staging, now, run, threads, pc, wb_sites, site_idx,
                   current_site_name, project_id_path, upload_state, result_queue,
                   exeptions_queue, pass>>

\* the download returns a file; the object key is derived from its name,
\* and an IndexError of that derivation leaves the call
TaskDownloadOk(i, tail) ==
    /\ pc = "pool"
    /\ i \in 1..Len(tasks)
    /\ tasks[i].pc = "download"
    /\ tail \in DownloadTails
    /\ LET file_path == FilePath(tasks[i].wb, tail) IN
        /\ staging' = staging \cup {file_path}
        /\ IF ExtRaises(file_path)
           THEN /\ tasks' = [tasks EXCEPT ![i].pc = "raised", ![i].file = file_path,
                                          ![i].exc = "IndexError"]
                /\ pc' = AfterTaskRaised
                /\ pass' = PassAfterTaskRaised
           ELSE /\ tasks' = [tasks EXCEPT ![i].pc = "upload", ![i].file = file_path,
                                          ![i].key = ObjKey(WbPathOf(tasks[i]), file_path)]
                /\ UNCHANGED <<pc, pass>>
    /\ UNCHANGED <<fill, ts_wbs, store_state, s3_objects, now, run, threads, wb_sites, site_idx,
                   current_site_name, project_id_path, upload_state, result_queue,
                   exeptions_queue>>

\* put_object stores the body and then raises
PersistFailWritten ==
    /\ pc = "pool"
    /\ PoolDone
    /\ store_state' = [store_state EXCEPT ![current_site_name] = Dumps(upload_state)]
    /\ pass' = [pass EXCEPT !.abort = "save"]
    /\ pc' = "aborted"
    /\ UNCHANGED <<fill, ts_wbs, s3_objects, staging, now, run, threads, wb_sites, site_idx,
                   current_site_name, project_id_path, upload_state, tasks, result_queue,
                   exeptions_queue>>

\* the except branch of the download reporting the error and raising it again
TaskDownloadFailReraises(i) ==
    /\ pc = "pool"
    /\ i \in 1..Len(tasks)
    /\ tasks[i].pc = "download"
    /\ tasks' = [tasks EXCEPT ![i].pc = "raised", ![i].out = "download_failed",
                              ![i].exc = "DownloadError"]
    /\ exeptions_queue' = Append(exeptions_queue, <<"DownloadError", Workbook(tasks[i].wb)>>)
    /\ pc' = AfterTaskRaised
    /\ pass' = PassAfterTaskRaised
    /\ UNCHANGED <<fill, ts_wbs, store_state, s3_objects, staging, now, run, threads, wb_sites, site_idx,
                   current_site_name, project_id_path, upload_state, result_queue>>

\* the download raises: the except branch reports it and the call returns
TaskDownloadFail(i) ==
    /\ pc = "pool"
    /\ i \in 1..Len(tasks)
    /\ tasks[i].pc = "download"
    /\ tasks' = [tasks EXCEPT ![i].pc = "done", ![i].out = "download_failed"]
    /\ exeptions_queue' = Append(exeptions_queue, <<"DownloadError", Workbook(tasks[i].wb)>>)
    /\ UNCHANGED <<fill, ts_wbs, store_state, s3_objects, staging, now, run, threads, pc, wb_sites, site_idx,
                   current_site_name, project_id_path, upload_state, result_queue, pass>>

\* _s3_upload returns: the object is in the bucket
TaskUploadOk(i) ==
    /\ pc = "pool"
    /\ i \in 1..Len(tasks)
    /\ tasks[i].pc = "upload"
    /\ s3_objects' = Put(s3_objects, tasks[i].key,
                         [id |-> tasks[i].wb.id, last_modified |-> Instant(now)])
    /\ tasks' = [tasks EXCEPT ![i].pc = "store"]
    /\ UNCHANGED <<fill, ts_wbs, store_state, staging, now, run, threads, pc, wb_sites, site_idx,
                   current_site_name, project_id_path, upload_state, result_queue,
                   exeptions_queue, pass>>

\* the except branch of the upload also recording the workbook in upload_state
TaskUploadFailRecords(i) ==
    /\ pc = "pool"
    /\ i \in 1..Len(tasks)
    /\ tasks[i].pc = "upload"
    /\ tasks' = [tasks EXCEPT ![i].pc = "remove", ![i].out = "upload_failed"]
    /\ exeptions_queue' = Append(exeptions_queue, <<"UploadError", Workbook(tasks[i].wb)>>)
    /\ upload_state' = Put(upload_state, WbPathOf(tasks[i]),
                           StateRecord(tasks[i].wb, tasks[i].key, now))
    /\ UNCHANGED <<fill, ts_wbs, store_state, s3_objects, staging, now, run, threads, pc, wb_sites, site_idx,
                   current_site_name, project_id_path, result_queue, pass>>

\* _s3_upload raises: the except branch reports it, os.remove follows
TaskUploadFail(i) ==
    /\ pc = "pool"
    /\ i \in 1..Len(tasks)
    /\ tasks[i].pc = "upload"
    /\ tasks' = [tasks EXCEPT ![i].pc = "remove", ![i].out = "upload_failed"]
    /\ exeptions_queue' = Append(exeptions_queue, <<"UploadError", Workbook(tasks[i].wb)>>)
    /\ UNCHANGED <<fill, ts_wbs, store_state, s3_objects, staging, now, run, threads, pc, wb_sites, site_idx,
                   current_site_name, project_id_path, upload_state, result_queue, pass>>

\* the else branch of the upload: self.upload_state[wb_path] = {...}, result_queue.put
TaskStore(i) ==
    /\ pc = "pool"
    /\ i \in 1..Len(tasks)
    /\ tasks[i].pc = "store"
    /\ upload_state' = Put(upload_state, WbPathOf(tasks[i]),
                           StateRecord(tasks[i].wb, tasks[i].key, now))
    /\ result_queue' = Append(result_queue, Workbook(tasks[i].wb))
    /\ tasks' = [tasks EXCEPT ![i].pc = "remove", ![i].out = "uploaded"]
    /\ UNCHANGED <<fill, ts_wbs, store_state, s3_objects, staging, now, run, threads, pc, wb_sites, site_idx,
                   current_site_name, project_id_path, exeptions_queue, pass>>

\* os.remove(file_path) deletes the staging file
TaskRemoveOk(i) ==
    /\ pc = "pool"
    /\ i \in 1..Len(tasks)
    /\ tasks[i].pc = "remove"
    /\ staging' = staging \ {tasks[i].file}
    /\ tasks' = [tasks EXCEPT ![i].pc = "done"]
    /\ UNCHANGED <<fill, ts_wbs, store_state, s3_objects, now, run, threads, pc, wb_sites, site_idx,
                   current_site_name, project_id_path, upload_state, result_queue,
                   exeptions_queue, pass>>

\* os.remove(file_path) raises OSError: the exception leaves the call
TaskRemoveFail(i) ==
    /\ pc = "pool"
    /\ i \in 1..Len(tasks)
    /\ tasks[i].pc = "remove"
    /\ tasks' = [tasks EXCEPT ![i].pc = "raised", ![i].exc = "OSError"]
    /\ pc' = AfterTaskRaised
    /\ pass' = PassAfterTaskRaised
    /\ UNCHANGED <<fill, ts_wbs, store_state, s3_objects, staging, now, run, threads, wb_sites, site_idx,
                   current_site_name, project_id_path, upload_state, result_queue,
                   exeptions_queue>>

----------------------------------------------------------------------------
(* the end of backup_site, the refresh, the end of the run *)

AllUploaded == \A i \in 1..Len(tasks) : tasks[i].out = "uploaded" /\ tasks[i].pc = "done"

\* _s3_upload_upload_state: put_object succeeds, backup_site returns
PersistOk ==
    /\ pc = "pool"
    /\ PoolDone
    /\ store_state' = [store_state EXCEPT ![current_site_name] = Dumps(upload_state)]
    /\ pass' = [pass EXCEPT !.persisted = @ + 1,
                            !.clean = [@ EXCEPT ![pass.site] = AllUploaded]]
    /\ pc' = "saved"
    /\ UNCHANGED <<fill, ts_wbs, s3_objects, staging, now, run, threads, wb_sites, site_idx,
                   current_site_name, project_id_path, upload_state, tasks, result_queue,
                   exeptions_queue>>

\* _s3_upload_upload_state: put_object raises, the exception is re-raised
PersistFail ==
    /\ pc = "pool"
    /\ PoolDone
    /\ pass' = [pass EXCEPT !.abort = "save"]
    /\ pc' = "aborted"
    /\ UNCHANGED <<fill, ts_wbs, store_state, s3_objects, staging, now, run, threads, wb_sites, site_idx,
                   current_site_name, project_id_path, upload_state, tasks, result_queue,
                   exeptions_queue>>

RECURSIVE StartsWith(_, _)
\* str.startswith
StartsWith(s, prefix) ==
    IF prefix = <<>> THEN TRUE
    ELSE IF s = <<>> THEN FALSE
    ELSE Head(s) = Head(prefix) /\ StartsWith(Tail(s), Tail(prefix))

\* the age test taken strictly
OutdatedStrict(objects, site_name, days) ==
    {k \in DOMAIN objects : /\ StartsWith(k, <<site_name, "/">>)
                            /\ AgeDays(Instant(now), objects[k].last_modified) > days}

\* the objects s3_update_outdated_last_modified_in_curr_site touches
Outdated(objects, site_name, days) ==
    {k \in DOMAIN objects : /\ StartsWith(k, <<site_name, "/">>)
                            /\ AgeDays(Instant(now), objects[k].last_modified) >= days}

\* s3_update_outdated_last_modified_in_curr_site, then run_backup goes to the
\* next site or returns after the last one
Refresh ==
    /\ pc = "saved"
    /\ s3_objects' = TouchAll(s3_objects, Outdated(s3_objects, current_site_name, UpdateInterval))
    /\ site_idx' = site_idx + 1
    /\ pc' = IF site_idx' > Len(wb_sites) THEN "finished" ELSE "next"
    /\ pass' = [pass EXCEPT !.refreshed[current_site_name] = @ + 1]
    /\ UNCHANGED <<fill, ts_wbs, store_state, staging, now, run, threads, wb_sites,
                   current_site_name, project_id_path, upload_state, tasks, result_queue,
                   exeptions_queue>>

\* the workbooks the last pass of a run uploaded without the state being persisted
Unrecorded ==
    IF pc = "aborted" /\ pass.persisted = 0 /\ pass.site # None
    THEN [site |-> pass.site,
          wbs |-> {tasks[i].wb : i \in {j \in 1..Len(tasks) : tasks[j].out = "uploaded"}}]
    ELSE [site |-> None, wbs |-> {}]

\* the program is started again later (a new process: __init__), the server
\* may list other workbooks by then
NewRun(listing) ==
    /\ pc \in {"finished", "aborted"}
    /\ run < MaxRuns
    /\ listing \in Listings
    /\ \A s \in SiteNames : s \notin VisitedSites => listing[s] = ts_wbs[s]
    /\ ts_wbs' = listing
    /\ run' = run + 1
    /\ now' = now + RunGapDays
    /\ pc' = "next"
    /\ site_idx' = 1
    /\ current_site_name' = None
    /\ project_id_path' = EmptyState
    /\ upload_state' = EmptyState
    /\ tasks' = <<>>
    /\ result_queue' = <<>>
    /\ exeptions_queue' = <<>>
    /\ pass' = [FirstPass EXCEPT !.clean = [s \in SiteNames |->
                                                pass.clean[s] /\ listing[s] = ts_wbs[s]],
                                 !.unrecorded = Unrecorded]
    /\ UNCHANGED <<fill, store_state, s3_objects, staging, threads, wb_sites>>

\* the steps of one run_backup
Next ==
    \/ \E outcome \in {"ok", "NoSuchKey", "ClientError", "ParseError"} : SwitchSite(outcome)
    \/ SwitchSiteNotFound
    \/ PlanSite
    \/ \E k \in DOMAIN upload_state : \E before \in SUBSET (DOMAIN upload_state) :
          PlanSiteTouchFails(k, before)
    \/ \E i \in 1..Len(tasks) : TaskStart(i)
    \/ \E i \in 1..Len(tasks) : \E tail \in DownloadTails : TaskDownloadOk(i, tail)
    \/ \E i \in 1..Len(tasks) : TaskDownloadFail(i)
    \/ \E i \in 1..Len(tasks) : TaskUploadOk(i)
    \/ \E i \in 1..Len(tasks) : TaskUploadFail(i)
    \/ \E i \in 1..Len(tasks) : TaskStore(i)
    \/ \E i \in 1..Len(tasks) : TaskRemoveOk(i)
    \/ \E i \in 1..Len(tasks) : TaskRemoveFail(i)
    \/ PersistOk
    \/ PersistFail
    \/ Refresh

\* runs that follow one another
NextRerun ==
    \/ Next
    \/ \E listing \in Listings : NewRun(listing)

Spec == Init /\ [][Next]_vars

SpecRerun == InitRerun /\ [][NextRerun]_vars

\* runs of site S1 that follow one another, the first against the bucket an
\* earlier run left
InitHeal ==
    /\ ts_wbs \in {l \in Listings : l["S2"] = <<w4>>}
    /\ threads \in BOOLEAN
    /\ wb_sites = <<"S1">>
    /\ now = 0
    /\ \E bucket \in {BucketAfter(l) : l \in EarlierListings} :
          /\ store_state = bucket.state
          /\ s3_objects = bucket.objects
    /\ InitMemory
    /\ fill = FillIdle

SpecHeal == InitHeal /\ [][NextRerun]_vars

----------------------------------------------------------------------------
(* _fill_project_id_path stepped through its loops, on any project table *)

mainvars == <<ts_wbs, store_state, s3_objects, staging, now, run, threads, pc, wb_sites, site_idx,
              current_site_name, project_id_path, upload_state, tasks, result_queue,
              exeptions_queue, pass>>

ProjectIds == <<"P1", "P2", "P3">>

ProjectName(p) == CASE p = "P1" -> <<"A">> [] p = "P2" -> <<"B">> [] OTHER -> <<"C">>

\* the tables TSC.Pager(self.ts.projects) can return: every parent_id is None, a
\* project of the table (cycles included) or the id of a project that is not listed
ProjectTables ==
    {[p \in {"P1", "P2", "P3"} |-> [name |-> ProjectName(p), parent_id |-> par[p]]] :
        par \in [{"P1", "P2", "P3"} -> {None, "P1", "P2", "P3", "P9"}]}

\* the call starts: all_projects is read, self.project_id_path = {}
InitFill ==
    /\ ts_wbs = [s \in SiteNames |-> <<>>]
    /\ threads = FALSE
    /\ wb_sites = AllSites
    /\ now = 0
    /\ store_state = EmptyBucket.state
    /\ s3_objects = EmptyBucket.objects
    /\ InitMemory
    /\ \E table \in ProjectTables :
          fill = [pc |-> "for", all_projects |-> table, todo |-> ProjectIds, project |-> None,
                  parent_id |-> None, path |-> <<>>, hops |-> 0, result |-> EmptyState]

\* for _, project in all_projects.items(): path = [], parent_id = project.parent_id
FillFor ==
    /\ fill.pc = "for"
    /\ fill.todo # <<>>
    /\ fill' = [fill EXCEPT !.pc = "while", !.project = Head(fill.todo), !.todo = Tail(fill.todo),
                            !.path = <<>>, !.hops = 0,
                            !.parent_id = fill.all_projects[Head(fill.todo)].parent_id]
    /\ UNCHANGED mainvars

\* the for loop is exhausted: the method returns
FillReturn ==
    /\ fill.pc = "for"
    /\ fill.todo = <<>>
    /\ fill' = [fill EXCEPT !.pc = "done", !.project = None]
    /\ UNCHANGED mainvars

\* if parent_id: path.append(all_projects[parent_id].name); parent_id = ...parent_id
\* (hops is the parity of the number of iterations of the while loop)
FillHop ==
    /\ fill.pc = "while"
    /\ fill.parent_id # None
    /\ fill.parent_id \in DOMAIN fill.all_projects
    /\ fill' = [fill EXCEPT !.path = IF Len(@) < MaxHops
                                     THEN Append(@, fill.all_projects[fill.parent_id].name)
                                     ELSE @,
                            !.hops = (@ + 1) % 2,
                            !.parent_id = fill.all_projects[fill.parent_id].parent_id]
    /\ UNCHANGED mainvars

\* all_projects[parent_id] raises KeyError
FillKeyError ==
    /\ fill.pc = "while"
    /\ fill.parent_id # None
    /\ fill.parent_id \notin DOMAIN fill.all_projects
    /\ fill' = [fill EXCEPT !.pc = "KeyError"]
    /\ UNCHANGED mainvars

\* the break without path.reverse()
FillBreakNoReverse ==
    /\ fill.pc = "while"
    /\ fill.parent_id = None
    /\ fill' = [fill EXCEPT !.pc = "for",
                            !.result = Put(@, fill.project,
                                           JoinSlash(fill.path
                                                     \o <<fill.all_projects[fill.project].name>>)
                                           \o <<"/">>)]
    /\ UNCHANGED mainvars

\* else: break; path.reverse(); self.project_id_path[project.id] = '/'.join(...) + '/'
FillBreak ==
    /\ fill.pc = "while"
    /\ fill.parent_id = None
    /\ fill' = [fill EXCEPT !.pc = "for",
                            !.result = Put(@, fill.project,
                                           JoinSlash(Reverse(fill.path)
                                                     \o <<fill.all_projects[fill.project].name>>)
                                           \o <<"/">>)]
    /\ UNCHANGED mainvars

NextFill ==
    \/ FillFor
    \/ FillReturn
    \/ FillHop
    \/ FillKeyError
    \/ FillBreak

\* the interpreter keeps executing the method until it returns or raises
SpecFill == InitFill /\ [][NextFill]_vars /\ WF_vars(NextFill)

----------------------------------------------------------------------------
(* Observations used by the properties *)

\* the outcomes put on the two queues since the pass began
PassResults == SubSeq(result_queue, pass.mark_r + 1, Len(result_queue))
PassFailures == SubSeq(exeptions_queue, pass.mark_e + 1, Len(exeptions_queue))

\* number of outcomes the pass holds for the workbook of task i
OutcomeCount(i) ==
    Cardinality({k \in 1..Len(PassResults) : PassResults[k].id = tasks[i].wb.id})
    + Cardinality({k \in 1..Len(PassFailures) : PassFailures[k][2].id = tasks[i].wb.id})

\* the worker pool of the pass has been left: every future is finished
PoolFinished == threads /\ pc \in {"pool", "saved"} /\ PoolDone

\* the canonical paths of the workbooks listed for the site of the pass
LivePaths ==
    {GetWbPath(pass.site, FillProjectIdPath(AllProjects(pass.site)), ts_wbs[pass.site][i]) :
        i \in 1..Len(ts_wbs[pass.site])}

\* the pass has planned: queue_to_backup is built
Planned == pc \in {"pool", "saved"}

----------------------------------------------------------------------------
(* Properties *)

\* C1: when the pool of a threaded pass over N > max_workers queued workbooks has
\* finished, the two queues together hold exactly N outcomes of the pass, exactly
\* one per queued workbook.
C1_OneOutcomePerArtifact ==
    (PoolFinished /\ Len(tasks) > MaxWorkers) =>
        /\ Len(PassResults) + Len(PassFailures) = Len(tasks)
        /\ \A i \in 1..Len(tasks) : OutcomeCount(i) = 1

\* C2: when the pool has finished, every task that an exception left outside the
\* download and upload try-blocks has a failure outcome carrying that exception on
\* the failure queue.
C2_EscapedExceptionReported ==
    PoolFinished =>
        \A i \in 1..Len(tasks) :
            tasks[i].pc = "raised" =>
                \E k \in 1..Len(PassFailures) :
                    PassFailures[k] = <<tasks[i].exc, Workbook(tasks[i].wb)>>

\* C3: a pass that follows a completed pass of the same site in which every
\* transfer succeeded and the state was persisted, over the unchanged listing,
\* queues no workbook and removes no state key.
C3_SecondPassPlansNothing ==
    (Planned /\ pass.was_clean) => (pass.queued = <<>> /\ pass.removed = {})

\* C4: a listed workbook is left out of queue_to_backup exactly when the loaded
\* state has a record at its path whose id, updated_at and created_at equal the
\* workbook's (as rendered by strftime); every other workbook is queued.
C4_DiffRule ==
    Planned =>
        \A i \in 1..Len(ts_wbs[pass.site]) :
            LET wb == ts_wbs[pass.site][i]
                wb_path == GetWbPath(pass.site, FillProjectIdPath(AllProjects(pass.site)), wb)
                skipped == \A k \in 1..Len(pass.queued) : pass.queued[k] # wb
                same == /\ wb_path \in DOMAIN pass.loaded
                        /\ pass.loaded[wb_path].id = wb.id
                        /\ pass.loaded[wb_path].updated_at = <<wb.updated_at.t + wb.updated_at.off, wb.updated_at.off>>
                        /\ pass.loaded[wb_path].created_at = <<wb.created_at.t + wb.created_at.off, wb.created_at.off>>
            IN  skipped <=> same

\* a pass that skips one workbook and queues another whose record differs in a
\* timestamp only
C4_Witness ==
    /\ Planned
    /\ Len(pass.queued) = 1
    /\ Len(ts_wbs[pass.site]) = 2
    /\ LET wb == pass.queued[1]
           wb_path == GetWbPath(pass.site, FillProjectIdPath(AllProjects(pass.site)), wb)
       IN  /\ wb_path \in DOMAIN pass.loaded
           /\ pass.loaded[wb_path].id = wb.id
           /\ pass.loaded[wb_path].updated_at = strftime(wb.updated_at)
           /\ pass.loaded[wb_path].created_at # strftime(wb.created_at)

\* the keys of the loaded state whose path no listed workbook has
GoneKeys == {k \in DOMAIN pass.loaded : k \notin LivePaths}

\* C5: once the pass has planned, every key of the loaded state that is no live
\* path has had its object touched and is out of the in-memory state, before any
\* task has started; live keys are neither touched nor removed by that step; the
\* state persisted at the end holds none of the removed keys.
C5_RemovedReconciled ==
    /\ Running # {} => pc = "pool"
    /\ Planned =>
        /\ pass.removed = GoneKeys
        /\ pass.touched = {pass.loaded[k].object_key : k \in GoneKeys}
        /\ \A k \in GoneKeys :
              /\ k \notin DOMAIN upload_state
              /\ s3_objects[pass.loaded[k].object_key].last_modified = Instant(now)
        /\ \A k \in DOMAIN pass.loaded \ GoneKeys : k \in DOMAIN upload_state
        /\ (\A i \in 1..Len(tasks) : tasks[i].pc = "queued") =>
              /\ DOMAIN s3_objects = DOMAIN pass.objects0
              /\ \A o \in DOMAIN s3_objects :
                    s3_objects[o] = IF o \in pass.touched
                                    THEN [pass.objects0[o] EXCEPT !.last_modified = Instant(now)]
                                    ELSE pass.objects0[o]
              /\ \A k \in DOMAIN pass.loaded \ GoneKeys : upload_state[k] = pass.loaded[k]
        /\ pc = "saved" =>
              \A k \in GoneKeys : \A m \in store_state[pass.site].members : m[1] # k

\* a persisted pass that removed a key and also transferred a workbook
C5_Witness ==
    /\ pc = "saved"
    /\ pass.removed # {}
    /\ pass.removed = GoneKeys
    /\ \E i \in 1..Len(tasks) : tasks[i].out = "uploaded"
    /\ \E k \in pass.removed : \E m \in pass.store0[pass.site].members : m[1] = k

\* the task whose call made the step from "from" to an outcome "out"
StepOf(i, from, out) ==
    /\ i \in 1..Len(tasks)
    /\ Len(tasks') = Len(tasks)
    /\ tasks[i].pc = from
    /\ tasks[i].out = None
    /\ tasks'[i].out = out

\* C6: while the transfers of a pass run, upload_state changes only by the step of
\* a task whose upload succeeded, and that step sets exactly the entry at the
\* task's path, to a record with the workbook's id, its two timestamps and the
\* object key of the upload; a step in which a download or an upload fails leaves
\* upload_state as it was.
C6_StateWrittenOnlyOnSuccess ==
    [][/\ (pc = "pool" /\ upload_state' # upload_state) =>
            \E i \in 1..Len(tasks) : StepOf(i, "store", "uploaded")
       /\ \A i \in 1..Len(tasks) :
            /\ (StepOf(i, "download", "download_failed") \/ StepOf(i, "upload", "upload_failed"))
                  => upload_state' = upload_state
            /\ StepOf(i, "store", "uploaded") =>
                  LET wb == tasks[i].wb
                      wb_path == GetWbPath(pass.site, FillProjectIdPath(AllProjects(pass.site)), wb)
                  IN  /\ DOMAIN upload_state' = DOMAIN upload_state \cup {wb_path}
                      /\ \A k \in DOMAIN upload_state \ {wb_path} : upload_state'[k] = upload_state[k]
                      /\ upload_state'[wb_path].id = wb.id
                      /\ upload_state'[wb_path].created_at = <<wb.created_at.t + wb.created_at.off, wb.created_at.off>>
                      /\ upload_state'[wb_path].updated_at = <<wb.updated_at.t + wb.updated_at.off, wb.updated_at.off>>
                      /\ upload_state'[wb_path].object_key = tasks[i].key
                      /\ tasks[i].key \in DOMAIN s3_objects
      ]_vars

\* a threaded pass in which one upload succeeded, an upload failed at a path
\* that keeps the record of another workbook, and a download failed at a path
\* that stays absent
C6_Witness ==
    /\ threads
    /\ pc = "saved"
    /\ \E i, j, k \in 1..Len(tasks) :
          /\ tasks[i].out = "uploaded"
          /\ tasks[j].out = "upload_failed"
          /\ WbPathOf(tasks[j]) \in DOMAIN upload_state
          /\ upload_state[WbPathOf(tasks[j])].id # tasks[j].wb.id
          /\ tasks[k].out = "download_failed"
          /\ WbPathOf(tasks[k]) \notin DOMAIN upload_state

\* C7: a step in which a download or an upload fails leaves the pass running and
\* every other task as it was: only the failing call moves on (to its end, or to
\* the removal of its staging file), and in the sequential loop the next call can
\* start after a failed download; a pass that persists has attempted every queued
\* workbook, holds exactly one outcome for each failed one, and has written the
\* state it holds.
C7_FailureIsolated ==
    [][/\ Len(exeptions_queue') > Len(exeptions_queue) =>
            /\ pc = "pool" /\ pc' = "pool"
            /\ pass'.abort = None
            /\ upload_state' = upload_state
            /\ \E i \in 1..Len(tasks) :
                  /\ \/ StepOf(i, "download", "download_failed") /\ tasks'[i].pc = "done"
                     \/ StepOf(i, "upload", "upload_failed") /\ tasks'[i].pc = "remove"
                  /\ \A j \in 1..Len(tasks) \ {i} : tasks'[j] = tasks[j]
                  /\ (~threads /\ tasks'[i].pc = "done" /\ i < Len(tasks)) => CanStart(i + 1)'
       /\ pc' = "saved" =>
            /\ \A i \in 1..Len(tasks') : TaskFinished(tasks'[i])
            /\ \A i \in 1..Len(tasks') :
                  tasks'[i].out \in {"download_failed", "upload_failed"} => OutcomeCount(i)' = 1
            /\ store_state'[pass'.site] = Dumps(upload_state')
      ]_vars

\* a sequential pass that persisted after the first call failed its upload and
\* a later call succeeded
C7_Witness ==
    /\ ~threads
    /\ pc = "saved"
    /\ Len(tasks) >= 2
    /\ tasks[1].out = "upload_failed"
    /\ \E j \in 2..Len(tasks) : tasks[j].out = "uploaded" /\ WbPathOf(tasks[j]) \in DOMAIN upload_state

\* C8: the state object of the site is written at most once in a pass and exactly
\* once in a completed pass; while a task of the pass is unfinished nothing has been
\* written to the store; once written, every task is finished and the stored body
\* is the serialisation of the in-memory state, which therefore did not change after
\* the write.
C8_PersistOnceAfterPool ==
    /\ pass.persisted <= 1
    /\ pc \in {"saved", "finished"} => pass.persisted = 1
    /\ pc \in {"switched", "pool"} => pass.persisted = 0
    /\ (\E i \in 1..Len(tasks) : ~TaskFinished(tasks[i])) =>
          /\ pass.persisted = 0
          /\ store_state = pass.store0
    /\ pass.persisted = 1 =>
          /\ \A i \in 1..Len(tasks) : TaskFinished(tasks[i])
          /\ store_state[pass.site] = Dumps(upload_state)
          /\ \A s \in SiteNames \ {pass.site} : store_state[s] = pass.store0[s]

\* a threaded pass whose workers wrote two records, persisted
C8_Witness ==
    /\ threads
    /\ pc = "saved"
    /\ pass.persisted = 1
    /\ Cardinality({i \in 1..Len(tasks) : tasks[i].out = "uploaded"}) >= 2
    /\ store_state[pass.site] # pass.store0[pass.site]

C10_UnreadableStateIsFatal ==
    pass.load \in {"ClientError", "ParseError"} =>
        /\ pc = "aborted"
        /\ pass.abort = "load"
        /\ tasks = <<>>
        /\ pass.queued = <<>>
        /\ pass.touched = {}
        /\ s3_objects = pass.objects0
        /\ store_state = pass.store0
        /\ Len(result_queue) = pass.mark_r
        /\ Len(exeptions_queue) = pass.mark_e

\* the state of S2 exists and does not parse, after the pass of S1 persisted
\* its own state in the same run
C10_Witness ==
    /\ pc = "aborted"
    /\ pass.site = "S2"
    /\ pass.load = "ParseError"
    /\ store_state["S2"].kind = "json"
    /\ store_state["S1"].kind = "json"
    /\ Len(result_queue) > 0

\* what a load of the state object "body" returns: the empty state for NoSuchKey
ContentOf(body) == IF body = NoObject THEN EmptyState ELSE Loads(body)

C12_SiteNotFoundSkipped ==
    ~pass.found =>
        /\ tasks = <<>>
        /\ pass.queued = <<>>
        /\ s3_objects = pass.objects0
        /\ pass.persisted = 0
        /\ store_state = pass.store0
        /\ pc # "aborted"

\* C13: the steps of a site occur in the order load, reconciliation, transfers,
\* persistence, refresh: the plan follows the load, a task moves only while the pool
\* is open, the state object is written only when every task is finished, the
\* refresh follows the persistence of the same site and is the first of that site
\* in the run, run_backup moves to the next site only by a refresh, the current
\* site changes only between passes, and a run that returns has refreshed every
\* site it visited exactly once.
C13_PerSiteOrdering ==
    [][/\ (pc' = "switched" /\ pc # "switched") => pc = "next"
       /\ (pc' = "pool" /\ pc # "pool") => pc = "switched"
       /\ (pc' = "saved" /\ pc # "saved") => (pc = "pool" /\ PoolDone)
       /\ (\E i \in 1..Len(tasks) : Len(tasks') = Len(tasks) /\ tasks'[i] # tasks[i]) => pc = "pool"
       /\ store_state' # store_state => (pc = "pool" /\ PoolDone /\ pc' = "saved")
       /\ pass'.refreshed # pass.refreshed =>
             /\ pc = "saved"
             /\ pass.persisted = 1
             /\ pass'.refreshed = [pass.refreshed EXCEPT ![pass.site] = 1]
             /\ pass.refreshed[pass.site] = 0
             /\ pass.site = wb_sites[site_idx]
       /\ site_idx' # site_idx => pass'.refreshed # pass.refreshed
       /\ current_site_name' # current_site_name =>
             /\ pc = "next"
             /\ PoolDone
             /\ current_site_name # None => pass.refreshed[current_site_name] = 1
       /\ pc' = "finished" => \A s \in VisitedSites : pass'.refreshed[s] = 1
      ]_vars

\* the object key of the .twb upload of a workbook of site S1
KeyOfS1(wb) == ObjKey(GetWbPath("S1", FillProjectIdPath(AllProjects("S1")), wb),
                      FilePath(wb, <<".", "t", "w", "b">>))

\* C14: a refresh step gives the current instant as last-modified to exactly the
\* objects whose key begins with the site name and a slash and whose last-modified
\* lies at least UpdateInterval full days back, and leaves every other object,
\* tracked in the state or not, as it was.
C14_StalenessBoundary ==
    [][pass'.refreshed # pass.refreshed =>
          /\ DOMAIN s3_objects' = DOMAIN s3_objects
          /\ \A k \in DOMAIN s3_objects :
                LET under == Len(k) >= 2 /\ k[1] = current_site_name /\ k[2] = "/"
                    stale == Instant(now) - s3_objects[k].last_modified
                                >= UpdateInterval * TicksPerDay
                IN  IF under /\ stale
                    THEN s3_objects'[k] = [s3_objects[k] EXCEPT !.last_modified = Instant(now)]
                    ELSE s3_objects'[k] = s3_objects[k]
      ]_vars

\* after the refresh of S1: the tracked object of workbook 1, aged exactly the
\* interval, was touched; the untracked stray object, one instant younger, and the
\* object of S2, as old as workbook 1's, were not
C14_Witness ==
    /\ pc = "next"
    /\ site_idx = 2
    /\ pass.site = "S1"
    /\ pass.refreshed["S1"] = 1
    /\ pass.queued = <<>>
    /\ pass.removed = {}
    /\ StrayKey \in DOMAIN s3_objects
    /\ Instant(now) - s3_objects[StrayKey].last_modified = UpdateInterval * TicksPerDay - 1
    /\ StrayKey \notin {upload_state[p].object_key : p \in DOMAIN upload_state}
    /\ KeyOfS1(w1) \in DOMAIN pass.objects0
    /\ Instant(now) - pass.objects0[KeyOfS1(w1)].last_modified = UpdateInterval * TicksPerDay
    /\ s3_objects[KeyOfS1(w1)].last_modified = Instant(now)
    /\ \E k \in DOMAIN s3_objects :
          /\ k[1] = "S2"
          /\ s3_objects[k] = pass.objects0[k]
          /\ Instant(now) - s3_objects[k].last_modified >= UpdateInterval * TicksPerDay

\* C15: the construction of the project paths ends on every project table: it
\* returns, or it raises an error.
C15_PathResolutionTerminates == <>(fill.pc \in {"done", "KeyError"})

RECURSIVE PathFromRoot(_, _)
\* the names from the root down to project p, each followed by a slash
\* (defined for a project whose ancestry is a finite chain)
PathFromRoot(table, p) ==
    IF table[p].parent_id = None THEN table[p].name \o <<"/">>
    ELSE PathFromRoot(table, table[p].parent_id) \o table[p].name \o <<"/">>

\* C16: every path _fill_project_id_path has resolved is the chain of project names
\* from the root down to the project, and the workbook path built from it is the
\* site name, those names and the workbook name joined by single slashes, with no
\* slash at the end; for A -> B and workbook R under B in S1 it is S1/A/B/R.
C16_CanonicalPath ==
    /\ fill.pc = "done" => fill.result = FillProjectIdPath(fill.all_projects)
    /\ fill.pc # "idle" =>
        \A p \in DOMAIN fill.result :
            LET wb == WB("1", <<"R">>, p, DT(1, 0), DT(1, 0))
                wb_path == GetWbPath("S1", fill.result, wb)
            IN  /\ fill.result[p] = PathFromRoot(fill.all_projects, p)
                /\ wb_path = <<"S1", "/">> \o PathFromRoot(fill.all_projects, p) \o <<"R">>
                /\ wb_path[Len(wb_path)] # "/"
                /\ (p = "P2" /\ fill.all_projects["P2"].parent_id = "P1"
                             /\ fill.all_projects["P1"].parent_id = None)
                      => wb_path = <<"S1", "/", "A", "/", "B", "/", "R">>

\* the method returned on the chain A -> B -> C
C16_Witness ==
    /\ fill.pc = "done"
    /\ fill.all_projects["P1"].parent_id = None
    /\ fill.all_projects["P2"].parent_id = "P1"
    /\ fill.all_projects["P3"].parent_id = "P2"
    /\ fill.result["P3"] = <<"A", "/", "B", "/", "C", "/">>
    /\ GetWbPath("S1", fill.result, WB("1", <<"R">>, "P2", DT(1, 0), DT(1, 0)))
          = <<"S1", "/", "A", "/", "B", "/", "R">>

\* C17: once the call for a workbook whose download produced a file has ended, the
\* file is no longer in the work directory (unless the removal itself raised), and
\* when every call of the pass has ended no file of the pass is left there.
C17_StagingCleanup ==
    /\ \A i \in 1..Len(tasks) :
          (TaskFinished(tasks[i]) /\ tasks[i].file # <<>> /\ tasks[i].exc # "OSError")
              => tasks[i].file \notin staging
    /\ (PoolDone /\ \A i \in 1..Len(tasks) : tasks[i].exc # "OSError")
          => \A i \in 1..Len(tasks) : tasks[i].file \notin staging

\* C18: a pass that was aborted before its persistence write leaves the state
\* object of its site as it was when the pass began and leaves the objects it
\* uploaded in the bucket; in the next run the pass of that site queues every
\* workbook that was uploaded without being recorded and is still listed as it
\* was uploaded.
C18_AbortSelfHealing ==
    /\ (pc = "aborted" /\ pass.persisted = 0 /\ pass.site # None) =>
          /\ store_state[pass.site] = pass.store0[pass.site]
          /\ \A i \in 1..Len(tasks) :
                tasks[i].out = "uploaded" =>
                    /\ tasks[i].key \in DOMAIN s3_objects
                    /\ s3_objects[tasks[i].key].last_modified = Instant(now)
    /\ (Planned /\ pass.found /\ pass.site = pass.unrecorded.site) =>
          /\ \A wb \in pass.unrecorded.wbs :
                wb.id \in {pass.objects0[k].id : k \in DOMAIN pass.objects0}
          /\ \A wb \in pass.unrecorded.wbs :
                (\E j \in 1..Len(ts_wbs[pass.site]) : ts_wbs[pass.site][j] = wb) =>
                    \E q \in 1..Len(pass.queued) : pass.queued[q] = wb

\* the pass after an aborted one queues again a workbook that the aborted pass had
\* uploaded over an older record, which the loaded state still holds
C18_Witness ==
    /\ Planned
    /\ pass.found
    /\ pass.site = pass.unrecorded.site
    /\ \E wb \in pass.unrecorded.wbs :
          LET wb_path == GetWbPath(pass.site, FillProjectIdPath(AllProjects(pass.site)), wb)
          IN  /\ wb_path \in DOMAIN pass.loaded
              /\ pass.loaded[wb_path].updated_at # strftime(wb.updated_at)
              /\ \E q \in 1..Len(pass.queued) : pass.queued[q] = wb

\* the listed workbooks of the pass have pairwise distinct canonical paths
DistinctPaths == Cardinality(LivePaths) = Len(ts_wbs[pass.site])

\* the tasks of the pass that ended with the given outcome
TasksWith(out) == {i \in 1..Len(tasks) : tasks[i].out = out}

\* the state a pass holds after its calls, as a function of the loaded state, the
\* removed keys and the outcome of each call only
StateOfOutcomes ==
    LET kept == DOMAIN pass.loaded \ pass.removed
        done == {WbPathOf(tasks[i]) : i \in TasksWith("uploaded")}
    IN  [k \in kept \cup done |->
            IF k \in done
            THEN LET i == CHOOSE j \in TasksWith("uploaded") : WbPathOf(tasks[j]) = k
                 IN  StateRecord(tasks[i].wb, tasks[i].key, now)
            ELSE pass.loaded[k]]

\* the state and the outcomes of a persisted pass are those its outcomes determine
OutcomesDetermineState ==
    (pc = "saved" /\ DistinctPaths) =>
        /\ upload_state = StateOfOutcomes
        /\ store_state[pass.site] = Dumps(StateOfOutcomes)
        /\ {PassResults[k] : k \in 1..Len(PassResults)}
              = {Workbook(tasks[i].wb) : i \in TasksWith("uploaded")}
        /\ {PassFailures[k] : k \in 1..Len(PassFailures)}
              = {<<"DownloadError", Workbook(tasks[i].wb)>> : i \in TasksWith("download_failed")}
                \cup {<<"UploadError", Workbook(tasks[i].wb)>> : i \in TasksWith("upload_failed")}

\* C19: over workbooks with pairwise distinct paths, the state a pass persists and
\* its sets of outcomes are determined by which downloads and uploads failed, in
\* either mode and for every interleaving; and the threaded pass persists only
\* where the sequential pass with the same calls persists too, that is when no
\* call ended with an exception (which ends the sequential pass before line 272).
C19_ThreadedEqualsSequential ==
    /\ OutcomesDetermineState
    /\ (pc = "saved" /\ DistinctPaths) => \A i \in 1..Len(tasks) : tasks[i].pc # "raised"

\* C20: when a pass has persisted, every key of the stored state is the canonical
\* path of a workbook listed for the site of the pass, whichever transfers failed,
\* and for every workbook with a success outcome the stored state holds, at the
\* workbook's path, the record of a successful upload of the pass to that path.
C20_PersistedKeysLive ==
    pc = "saved" =>
        LET stored == ContentOf(store_state[pass.site]) IN
        /\ DOMAIN stored \subseteq LivePaths
        /\ \A i \in TasksWith("uploaded") :
              /\ Workbook(tasks[i].wb) \in {PassResults[k] : k \in 1..Len(PassResults)}
              /\ WbPathOf(tasks[i]) \in DOMAIN stored
              /\ \E j \in TasksWith("uploaded") :
                    /\ WbPathOf(tasks[j]) = WbPathOf(tasks[i])
                    /\ stored[WbPathOf(tasks[i])] = StateRecord(tasks[j].wb, tasks[j].key, now)

\* a persisted pass that dropped the key of a workbook no longer listed and
\* recorded an upload
C20_Witness ==
    /\ pc = "saved"
    /\ pass.removed # {}
    /\ pass.removed \cap DOMAIN ContentOf(store_state[pass.site]) = {}
    /\ TasksWith("uploaded") # {}

\* C21: when the copy_object of a removed key raises, the exception ends the run
\* there: no workbook of the site is queued, downloaded or uploaded, no outcome is
\* put, no state object is written, the site is not refreshed, the only objects
\* changed are those of removed keys touched before the failure, and what a load of
\* the site's state object returns still holds every removed key with its record,
\* the key whose touch failed among them.
C21_FailedTouchAborts ==
    pass.abort = "touch" =>
        /\ pc = "aborted"
        /\ tasks = <<>>
        /\ pass.queued = <<>>
        /\ Len(result_queue) = pass.mark_r
        /\ Len(exeptions_queue) = pass.mark_e
        /\ pass.persisted = 0
        /\ store_state = pass.store0
        /\ pass.refreshed[pass.site] = 0
        /\ pass.removed \subseteq GoneKeys
        /\ GoneKeys \ pass.removed # {}
        /\ \A k \in GoneKeys \ pass.removed : k \in DOMAIN upload_state
        /\ pass.touched = {pass.loaded[k].object_key : k \in pass.removed}
        /\ DOMAIN s3_objects = DOMAIN pass.objects0
        /\ \A o \in DOMAIN s3_objects :
              s3_objects[o] = IF o \in pass.touched
                              THEN [pass.objects0[o] EXCEPT !.last_modified = Instant(now)]
                              ELSE pass.objects0[o]
        /\ \A k \in GoneKeys :
              /\ k \in DOMAIN ContentOf(store_state[pass.site])
              /\ ContentOf(store_state[pass.site])[k] = pass.loaded[k]

\* two workbooks left the inventory of S1: the object of one was touched, the
\* copy of the other raised
C21_Witness ==
    /\ pc = "aborted"
    /\ pass.abort = "touch"
    /\ pass.site = "S1"
    /\ Cardinality(GoneKeys) = 2
    /\ Cardinality(pass.removed) = 1
    /\ \E o \in pass.touched : s3_objects[o].last_modified # pass.objects0[o].last_modified

====
